---- MODULE Spec2Model ----
(***************************************************************************)
(* Order -> payment choreography of the order service and the payment      *)
(* service: the POST /orders and POST /payments handlers, the two RabbitMQ *)
(* consumers ('payment.request', 'order.payment.processed'), the queues    *)
(* between them and the Kafka topics they mirror their events on; and the  *)
(* notification service: its queue and Kafka consumers, createNotification,*)
(* the Redis channel and the registry of WebSocket connections.            *)
(*                                                                         *)
(* A handler is cut at its awaits: the database statement commits in one   *)
(* step, the code that runs when the await resumes is the next step.       *)
(***************************************************************************)
EXTENDS Integers, Sequences, FiniteSets, TLC

\* ------------------------------------------------------------------ bounds
MaxOrders == 2
MaxPayments == 2
MaxInFlight == 1
MaxFaults == 1
MaxRetries == 2

\* ------------------------------------------------------- values and inputs
Null == 0
Absent == -1
HttpCreated == 201
HttpBadRequest == 400
HttpServerError == 500

\* request bodies of POST /orders: a complete one, one per missing field, and a
\* zero total
OrderInputs ==
    {[userId |-> 1, items |-> 1, totalAmount |-> 20],
     [userId |-> Absent, items |-> 1, totalAmount |-> 20],
     [userId |-> 1, items |-> Absent, totalAmount |-> 20],
     [userId |-> 1, items |-> 1, totalAmount |-> Absent],
     [userId |-> 1, items |-> 1, totalAmount |-> 0]}
\* request bodies of POST /payments: one without orderId, one per order id with
\* no paymentMethod, and one that names a method
DirectInputs ==
    {[orderId |-> o, userId |-> 1, amount |-> 20, method |-> "none"] :
        o \in {Absent} \cup (1..MaxOrders)}
    \cup {[orderId |-> 1, userId |-> 1, amount |-> 20, method |-> "paypal"]}

\* JavaScript !v for the values a request field takes here
Falsy(v) == v = Absent \/ v = 0

VARIABLES
    orders,             \* table orders: row id = index
    payments,           \* table payments: row id = index
    ordChan,            \* order service rabbitmqChannel: absent | open | closed
    payChan,            \* payment service rabbitmqChannel: absent | open
    qOrderCreated,      \* queue 'order.created' (ready messages)
    qNotifications,     \* queue 'notifications' (ready messages)
    qPaymentRequest,    \* queue 'payment.request' (ready messages)
    qPaymentProcessed,  \* queue 'order.payment.processed' (ready messages)
    orderEvents,        \* Kafka topic 'order-events'
    co,                 \* the POST /orders call in progress
    dp,                 \* the POST /payments call in progress
    payInflight,        \* handlers of 'payment.request' past their INSERT
    ordInflight,        \* handlers of 'order.payment.processed' past their UPDATE
    staleReady,         \* 'order.payment.processed' messages delivered on a channel since closed
    published,          \* history: every message ever sent to 'order.payment.processed'
    ackedReq,           \* history: order ids of acknowledged payment requests
    nacks,              \* history: the causes of the negative acknowledgements so far
    crashedReq,         \* history: order ids of payment requests in flight at a crash
    ackedDone,          \* history: acknowledged payment-completed messages
    redone,             \* history: payment-completed messages applied more than once
    applied,            \* history: payment-completed messages applied at least once
    faults,             \* failures so far: persist = failed statements of the queue consumers of the
                        \* order and payment services, other = every other failed statement or send,
                        \* crash and channel loss
    notifications,      \* table notifications: row id = index
    connections,        \* the Map connections: user id -> list of sockets
    socks,              \* per socket: readyState, ws.userId, pending history load
    sent,               \* per socket: the messages the server sent on it, in order
    pubsub,             \* messages of Redis channel 'notifications' not yet handed to the subscriber
    nInflight,          \* createNotification calls past their INSERT
    kOffset,            \* offset of group 'notification-group' in 'order-events'
    ntfUnacked,         \* messages of 'notifications' delivered and neither acknowledged nor requeued yet
    userEvents,         \* Kafka topic 'user-events'
    uOffset             \* offset of group 'notification-group' in 'user-events'

\* the order and payment services
opVars == <<orders, payments, ordChan, payChan, qOrderCreated, qNotifications,
            qPaymentRequest, qPaymentProcessed, orderEvents,
            co, dp, payInflight, ordInflight, staleReady, published, ackedReq, nacks,
            crashedReq, ackedDone, redone, applied, faults>>
\* the notification service
nsVars == <<notifications, connections, socks, sent, pubsub, nInflight, kOffset, ntfUnacked>>
\* the topic of the user service
usVars == <<userEvents, uOffset>>
vars == <<opVars, nsVars, usVars>>

dbVars == <<orders, payments>>
queueVars == <<qOrderCreated, qNotifications, qPaymentRequest, qPaymentProcessed>>
histVars == <<published, ackedReq, nacks, crashedReq, ackedDone, redone, applied>>
flightVars == <<payInflight, ordInflight, staleReady>>

\* ----------------------------------------------------------------- queues
\* A queue variable holds the ready messages of the queue. No consumer sets a
\* prefetch limit, so the broker hands every ready message to the consumer at
\* once and the handlers' database statements commit in any order: a handler
\* enters the model at its database statement. A negative acknowledgement with
\* requeue makes the message ready again.
Msgs(inflight) == {h.msg : h \in inflight}

\* A database statement or a Kafka send fails: one more failure of the run
Failure == faults.other < MaxFaults /\ faults' = [faults EXCEPT !.other = @ + 1]

\* The INSERT or UPDATE of a queue consumer fails: the handlers keep no count
\* of it and neither does the broker
PersistFailure == faults.persist < MaxRetries /\ faults' = [faults EXCEPT !.persist = @ + 1]

\* ------------------------------------------------------- order service rows
\* the row is inserted with another status than 'pending'
NewOrder_Created(req) ==
    [userId |-> req.userId, items |-> req.items, totalAmount |-> req.totalAmount,
     status |-> "created", paymentId |-> Null]

NewOrder(req) ==
    [userId |-> req.userId, items |-> req.items, totalAmount |-> req.totalAmount,
     status |-> "pending", paymentId |-> Null]

\* the UPDATE binds the order id to the payment_id column
UpdateOrder_OrderIdAsPayment(os, data) ==
    [i \in 1..Len(os) |->
        IF i = data.orderId
        THEN [os[i] EXCEPT !.status = "paid", !.paymentId = data.orderId]
        ELSE os[i]]

\* the UPDATE forgets the status column
UpdateOrder_NoStatus(os, data) ==
    [i \in 1..Len(os) |->
        IF i = data.orderId THEN [os[i] EXCEPT !.paymentId = data.paymentId] ELSE os[i]]

\* the UPDATE keeps a payment id that is already set
UpdateOrder_KeepFirst(os, data) ==
    [i \in 1..Len(os) |->
        IF i = data.orderId
        THEN [os[i] EXCEPT !.status = "paid",
                           !.paymentId = IF os[i].paymentId = Null THEN data.paymentId
                                         ELSE os[i].paymentId]
        ELSE os[i]]

\* the UPDATE has no WHERE clause
UpdateOrder_AllRows(os, data) ==
    [i \in 1..Len(os) |-> [os[i] EXCEPT !.status = "paid", !.paymentId = data.paymentId]]

\* UPDATE orders SET status = 'paid', payment_id = $2 WHERE id = $3
UpdateOrder(os, data) ==
    [i \in 1..Len(os) |->
        IF i = data.orderId
        THEN [os[i] EXCEPT !.status = "paid", !.paymentId = data.paymentId]
        ELSE os[i]]

IdleCall == [pc |-> "idle", orderId |-> Null, resp |-> Null]

\* res.status(code).json(...)
Respond(call, code) == [call EXCEPT !.pc = "done", !.resp = code]

PaymentRequestMsg(id, order) ==
    [orderId |-> id, userId |-> order.userId, amount |-> order.totalAmount]

OrderCreatedMsg(id, order) ==
    [orderId |-> id, userId |-> order.userId, totalAmount |-> order.totalAmount]

NotificationMsg(id, order) ==
    [userId |-> order.userId, type |-> "order", title |-> "Order Created",
     message |-> <<"Your order #", id, " has been created">>,
     data |-> [orderId |-> id]]

OrderEvent(id, order) ==
    [key |-> "order.created", orderId |-> id, userId |-> order.userId,
     totalAmount |-> order.totalAmount]

\* the handler does not validate the body: the INSERT runs with what it was given
CreateOrderStart_NoValidation(req, dbOk) ==
    /\ co.pc \in {"idle", "done"}
    /\ LET call == IdleCall IN
       IF ~dbOk
       THEN /\ Failure
            /\ co' = Respond(call, HttpServerError)
            /\ orders' = orders
       ELSE /\ Len(orders) < MaxOrders
            /\ orders' = Append(orders, NewOrder(req))
            /\ co' = [call EXCEPT !.pc = "inserted", !.orderId = Len(orders) + 1]
            /\ faults' = faults
    /\ UNCHANGED <<payments, ordChan, payChan, queueVars, orderEvents, dp,
                   flightVars, histVars>>
    /\ UNCHANGED <<nsVars, usVars>>

\* POST /orders up to the INSERT: validation, then the insert commits or fails
CreateOrderStart(req, dbOk) ==
    /\ co.pc \in {"idle", "done"}
    /\ LET call == IdleCall IN
       IF Falsy(req.userId) \/ Falsy(req.items) \/ Falsy(req.totalAmount)
       THEN /\ dbOk
            /\ co' = Respond(call, HttpBadRequest)
            /\ UNCHANGED <<orders, faults>>
       ELSE IF ~dbOk
       THEN /\ Failure
            /\ co' = Respond(call, HttpServerError)
            /\ orders' = orders
       ELSE /\ Len(orders) < MaxOrders
            /\ orders' = Append(orders, NewOrder(req))
            /\ co' = [call EXCEPT !.pc = "inserted", !.orderId = Len(orders) + 1]
            /\ faults' = faults
    /\ UNCHANGED <<payments, ordChan, payChan, queueVars, orderEvents, dp,
                   flightVars, histVars>>
    /\ UNCHANGED <<nsVars, usVars>>

\* the payment request is published with the other queue messages, before the
\* Kafka send
CreateOrderPublish_PaymentFirst ==
    /\ co.pc = "inserted"
    /\ LET order == orders[co.orderId] IN
       CASE ordChan = "open" ->
              /\ qOrderCreated' = qOrderCreated \cup {OrderCreatedMsg(co.orderId, order)}
              /\ qNotifications' = qNotifications \cup {NotificationMsg(co.orderId, order)}
              /\ qPaymentRequest' = qPaymentRequest \cup {PaymentRequestMsg(co.orderId, order)}
              /\ co' = [co EXCEPT !.pc = "kafka"]
         [] ordChan = "absent" ->
              /\ UNCHANGED <<qOrderCreated, qNotifications, qPaymentRequest>>
              /\ co' = [co EXCEPT !.pc = "kafka"]
         [] ordChan = "closed" ->
              /\ UNCHANGED <<qOrderCreated, qNotifications, qPaymentRequest>>
              /\ co' = Respond(co, HttpServerError)
    /\ UNCHANGED <<dbVars, ordChan, payChan, qPaymentProcessed,
                   orderEvents, dp, flightVars, histVars, faults>>
    /\ UNCHANGED <<nsVars, usVars>>

\* POST /orders after the INSERT resolves: 'order.created' and the
\* notification request, then kafkaProducer.send is issued
CreateOrderPublish ==
    /\ co.pc = "inserted"
    /\ LET order == orders[co.orderId] IN
       CASE ordChan = "open" ->
              /\ qOrderCreated' = qOrderCreated \cup {OrderCreatedMsg(co.orderId, order)}
              /\ qNotifications' = qNotifications \cup {NotificationMsg(co.orderId, order)}
              /\ co' = [co EXCEPT !.pc = "kafka"]
         [] ordChan = "absent" ->
              /\ UNCHANGED <<qOrderCreated, qNotifications>>
              /\ co' = [co EXCEPT !.pc = "kafka"]
         [] ordChan = "closed" ->
              /\ UNCHANGED <<qOrderCreated, qNotifications>>
              /\ co' = Respond(co, HttpServerError)
    /\ UNCHANGED <<dbVars, ordChan, payChan, qPaymentRequest, qPaymentProcessed,
                   orderEvents, dp, flightVars, histVars, faults>>
    /\ UNCHANGED <<nsVars, usVars>>

\* the Kafka send is not wrapped in its own try/catch: a rejection reaches the
\* outer catch block
CreateOrderFinish_KafkaCritical(kafkaOk) ==
    /\ co.pc = "kafka"
    /\ IF kafkaOk THEN faults' = faults ELSE Failure
    /\ LET order == orders[co.orderId] IN
       /\ orderEvents' = IF kafkaOk THEN Append(orderEvents, OrderEvent(co.orderId, order))
                         ELSE orderEvents
       /\ IF kafkaOk /\ ordChan = "open"
          THEN qPaymentRequest' = qPaymentRequest \cup {PaymentRequestMsg(co.orderId, order)}
          ELSE qPaymentRequest' = qPaymentRequest
       /\ co' = IF kafkaOk /\ ordChan # "closed" THEN Respond(co, HttpCreated)
                ELSE Respond(co, HttpServerError)
    /\ UNCHANGED <<dbVars, ordChan, payChan, qOrderCreated, qNotifications,
                   qPaymentProcessed, dp, flightVars, histVars>>
    /\ UNCHANGED <<nsVars, usVars>>

\* POST /orders after kafkaProducer.send settles: the payment request and the response
CreateOrderFinish(kafkaOk) ==
    /\ co.pc = "kafka"
    /\ IF kafkaOk THEN faults' = faults ELSE Failure
    /\ LET order == orders[co.orderId] IN
       /\ orderEvents' = IF kafkaOk THEN Append(orderEvents, OrderEvent(co.orderId, order))
                         ELSE orderEvents
       /\ CASE ordChan = "open" ->
                 /\ qPaymentRequest' = qPaymentRequest \cup {PaymentRequestMsg(co.orderId, order)}
                 /\ co' = Respond(co, HttpCreated)
            [] ordChan = "absent" ->
                 /\ qPaymentRequest' = qPaymentRequest
                 /\ co' = Respond(co, HttpCreated)
            [] ordChan = "closed" ->
                 /\ qPaymentRequest' = qPaymentRequest
                 /\ co' = Respond(co, HttpServerError)
    /\ UNCHANGED <<dbVars, ordChan, payChan, qOrderCreated, qNotifications,
                   qPaymentProcessed, dp, flightVars, histVars>>
    /\ UNCHANGED <<nsVars, usVars>>

\* the handler treats an UPDATE that matched no row as an error and
\* negative-acknowledges with requeue
OrdUpdate_RequireRow(m, dbOk) ==
    /\ \/ ordChan = "open" /\ m \in qPaymentProcessed
       \/ ordChan = "closed" /\ m \in staleReady
    /\ staleReady' = staleReady \ {m}
    /\ IF dbOk /\ m.orderId \in 1..Len(orders)
       THEN /\ Cardinality(ordInflight) < MaxInFlight
            /\ orders' = UpdateOrder(orders, m)
            /\ ordInflight' = ordInflight \cup {[msg |-> m, stale |-> ordChan = "closed"]}
            /\ qPaymentProcessed' = IF ordChan = "open" THEN qPaymentProcessed \ {m}
                                    ELSE qPaymentProcessed
            /\ applied' = applied \cup {m}
            /\ redone' = IF m \in applied THEN redone \cup {m} ELSE redone
            /\ UNCHANGED <<nacks, faults>>
       ELSE /\ IF dbOk THEN faults' = faults ELSE PersistFailure
            /\ nacks' = IF ordChan = "open" THEN nacks \cup {"update"} ELSE nacks
            /\ UNCHANGED <<orders, ordInflight, qPaymentProcessed, applied, redone>>
    /\ UNCHANGED <<payments, ordChan, payChan, qOrderCreated, qNotifications,
                   qPaymentRequest, orderEvents, co, dp, payInflight, published,
                   ackedReq, crashedReq, ackedDone>>
    /\ UNCHANGED <<nsVars, usVars>>

\* the catch block negative-acknowledges without requeue: nack(msg, false, false)
OrdUpdate_Discard(m, dbOk) ==
    /\ \/ ordChan = "open" /\ m \in qPaymentProcessed
       \/ ordChan = "closed" /\ m \in staleReady
    /\ staleReady' = staleReady \ {m}
    /\ IF dbOk
       THEN /\ Cardinality(ordInflight) < MaxInFlight
            /\ orders' = UpdateOrder(orders, m)
            /\ ordInflight' = ordInflight \cup {[msg |-> m, stale |-> ordChan = "closed"]}
            /\ qPaymentProcessed' = IF ordChan = "open" THEN qPaymentProcessed \ {m}
                                    ELSE qPaymentProcessed
            /\ applied' = applied \cup {m}
            /\ redone' = IF m \in applied THEN redone \cup {m} ELSE redone
            /\ UNCHANGED <<nacks, faults>>
       ELSE /\ PersistFailure
            /\ nacks' = IF ordChan = "open" THEN nacks \cup {"update"} ELSE nacks
            /\ qPaymentProcessed' = IF ordChan = "open" THEN qPaymentProcessed \ {m}
                                    ELSE qPaymentProcessed
            /\ UNCHANGED <<orders, ordInflight, applied, redone>>
    /\ UNCHANGED <<payments, ordChan, payChan, qOrderCreated, qNotifications,
                   qPaymentRequest, orderEvents, co, dp, payInflight, published,
                   ackedReq, crashedReq, ackedDone>>
    /\ UNCHANGED <<nsVars, usVars>>

\* Consumer of 'order.payment.processed', message m: the UPDATE commits, or it
\* fails and the catch block negative-acknowledges with requeue. A handler
\* started before the channel was closed still runs its UPDATE.
OrdUpdate(m, dbOk) ==
    /\ \/ ordChan = "open" /\ m \in qPaymentProcessed
       \/ ordChan = "closed" /\ m \in staleReady
    /\ staleReady' = staleReady \ {m}
    /\ IF dbOk
       THEN /\ Cardinality(ordInflight) < MaxInFlight
            /\ orders' = UpdateOrder(orders, m)
            /\ ordInflight' = ordInflight \cup {[msg |-> m, stale |-> ordChan = "closed"]}
            /\ qPaymentProcessed' = IF ordChan = "open" THEN qPaymentProcessed \ {m}
                                    ELSE qPaymentProcessed
            /\ applied' = applied \cup {m}
            /\ redone' = IF m \in applied THEN redone \cup {m} ELSE redone
            /\ UNCHANGED <<nacks, faults>>
       ELSE /\ PersistFailure
            /\ nacks' = IF ordChan = "open" THEN nacks \cup {"update"} ELSE nacks
            /\ UNCHANGED <<orders, ordInflight, qPaymentProcessed, applied, redone>>
    /\ UNCHANGED <<payments, ordChan, payChan, qOrderCreated, qNotifications,
                   qPaymentRequest, orderEvents, co, dp, payInflight, published,
                   ackedReq, crashedReq, ackedDone>>
    /\ UNCHANGED <<nsVars, usVars>>

\* Consumer of 'order.payment.processed': rabbitmqChannel.ack after the UPDATE
\* (on a closed channel the ack throws and the broker keeps the message)
OrdAck(h) ==
    /\ h \in ordInflight
    /\ ordInflight' = ordInflight \ {h}
    /\ ackedDone' = IF h.stale THEN ackedDone ELSE ackedDone \cup {h.msg}
    /\ UNCHANGED <<dbVars, ordChan, payChan, queueVars, orderEvents, co, dp,
                   payInflight, staleReady, published, ackedReq, nacks, crashedReq,
                   redone, applied, faults>>
    /\ UNCHANGED <<nsVars, usVars>>

\* ---------------------------------------------------- payment service rows
\* the row is inserted with status 'pending'
NewPayment_Pending(orderId, userId, amount, method, via) ==
    [orderId |-> orderId, userId |-> userId, amount |-> amount,
     method |-> method, status |-> "pending", via |-> via]

\* INSERT INTO payments (order_id, user_id, amount, payment_method, status)
\* VALUES ($1, $2, $3, $4, 'completed')
NewPayment(orderId, userId, amount, method, via) ==
    [orderId |-> orderId, userId |-> userId, amount |-> amount,
     method |-> method, status |-> "completed", via |-> via]

\* the message takes its order id from the payment's own id
PaymentProcessedMsg_Swapped(id, payment) ==
    [orderId |-> id, paymentId |-> id]

\* the message names the id the sequence will hand out next
PaymentProcessedMsg_NextId(id, payment) ==
    [orderId |-> payment.orderId, paymentId |-> id + 1]

PaymentProcessedMsg(id, payment) ==
    [orderId |-> payment.orderId, paymentId |-> id]

\* the catch block acknowledges the message instead of requeueing it
PayInsert_AckOnError(m, dbOk) ==
    /\ payChan = "open"
    /\ m \in qPaymentRequest
    /\ IF dbOk
       THEN /\ Len(payments) < MaxPayments
            /\ Cardinality(payInflight) < MaxInFlight
            /\ payments' = Append(payments,
                   NewPayment(m.orderId, m.userId, m.amount, "credit_card", "queue"))
            /\ payInflight' = payInflight \cup
                   {[msg |-> m, pc |-> "inserted", paymentId |-> Len(payments) + 1]}
            /\ qPaymentRequest' = qPaymentRequest \ {m}
            /\ UNCHANGED <<nacks, faults, ackedReq>>
       ELSE /\ PersistFailure
            /\ qPaymentRequest' = qPaymentRequest \ {m}
            /\ ackedReq' = ackedReq \cup {m.orderId}
            /\ UNCHANGED <<payments, payInflight, nacks>>
    /\ UNCHANGED <<orders, ordChan, payChan, qOrderCreated, qNotifications,
                   qPaymentProcessed, orderEvents, co, dp, ordInflight, staleReady,
                   published, crashedReq, ackedDone, redone, applied>>
    /\ UNCHANGED <<nsVars, usVars>>

\* the catch block requeues once: after an earlier failed INSERT it rejects the
\* message without requeue
PayInsert_AttemptLimit(m, dbOk) ==
    /\ payChan = "open"
    /\ m \in qPaymentRequest
    /\ IF dbOk
       THEN /\ Len(payments) < MaxPayments
            /\ Cardinality(payInflight) < MaxInFlight
            /\ payments' = Append(payments,
                   NewPayment(m.orderId, m.userId, m.amount, "credit_card", "queue"))
            /\ payInflight' = payInflight \cup
                   {[msg |-> m, pc |-> "inserted", paymentId |-> Len(payments) + 1]}
            /\ qPaymentRequest' = qPaymentRequest \ {m}
            /\ UNCHANGED <<nacks, faults>>
       ELSE /\ PersistFailure
            /\ nacks' = nacks \cup {"persist"}
            /\ qPaymentRequest' = IF "persist" \in nacks THEN qPaymentRequest \ {m}
                                  ELSE qPaymentRequest
            /\ UNCHANGED <<payments, payInflight>>
    /\ UNCHANGED <<orders, ordChan, payChan, qOrderCreated, qNotifications,
                   qPaymentProcessed, orderEvents, co, dp, ordInflight, staleReady,
                   published, ackedReq, crashedReq, ackedDone, redone, applied>>
    /\ UNCHANGED <<nsVars, usVars>>

\* Consumer of 'payment.request', message m: the INSERT commits, or it fails and
\* the catch block negative-acknowledges with requeue
PayInsert(m, dbOk) ==
    /\ payChan = "open"
    /\ m \in qPaymentRequest
    /\ IF dbOk
       THEN /\ Len(payments) < MaxPayments
            /\ Cardinality(payInflight) < MaxInFlight
            /\ payments' = Append(payments,
                   NewPayment(m.orderId, m.userId, m.amount, "credit_card", "queue"))
            /\ payInflight' = payInflight \cup
                   {[msg |-> m, pc |-> "inserted", paymentId |-> Len(payments) + 1]}
            /\ qPaymentRequest' = qPaymentRequest \ {m}
            /\ UNCHANGED <<nacks, faults>>
       ELSE /\ PersistFailure
            /\ nacks' = nacks \cup {"persist"}
            /\ UNCHANGED <<payments, payInflight, qPaymentRequest>>
    /\ UNCHANGED <<orders, ordChan, payChan, qOrderCreated, qNotifications,
                   qPaymentProcessed, orderEvents, co, dp, ordInflight, staleReady,
                   published, ackedReq, crashedReq, ackedDone, redone, applied>>
    /\ UNCHANGED <<nsVars, usVars>>

\* Consumer of 'payment.request' after the INSERT resolves: the
\* payment-completed message, then kafkaProducer.send is issued
PayPublish(h) ==
    /\ h \in payInflight
    /\ h.pc = "inserted"
    /\ LET m == PaymentProcessedMsg(h.paymentId, payments[h.paymentId]) IN
       /\ qPaymentProcessed' = qPaymentProcessed \cup {m}
       /\ published' = published \cup {m}
    /\ payInflight' = (payInflight \ {h}) \cup {[h EXCEPT !.pc = "kafka"]}
    /\ UNCHANGED <<dbVars, ordChan, payChan, qOrderCreated, qNotifications,
                   qPaymentRequest, orderEvents, co, dp, ordInflight, staleReady,
                   ackedReq, nacks, crashedReq, ackedDone, redone, applied, faults>>
    /\ UNCHANGED <<nsVars, usVars>>

\* Consumer of 'payment.request' after kafkaProducer.send settles: ack, or the
\* rejection reaches the catch block and the message is requeued
PayFinish(h, kafkaOk) ==
    /\ h \in payInflight
    /\ h.pc = "kafka"
    /\ payInflight' = payInflight \ {h}
    /\ IF kafkaOk
       THEN /\ ackedReq' = ackedReq \cup {h.msg.orderId}
            /\ UNCHANGED <<qPaymentRequest, nacks, faults>>
       ELSE /\ Failure
            /\ qPaymentRequest' = qPaymentRequest \cup {h.msg}
            /\ nacks' = nacks \cup {"kafka"}
            /\ UNCHANGED ackedReq
    /\ UNCHANGED <<dbVars, ordChan, payChan, qOrderCreated, qNotifications,
                   qPaymentProcessed, orderEvents, co, dp, ordInflight, staleReady,
                   published, crashedReq, ackedDone, redone, applied>>
    /\ UNCHANGED <<nsVars, usVars>>

IdleDirect == [pc |-> "idle", paymentId |-> Null, resp |-> Null]

\* POST /payments up to the INSERT: validation, then the insert commits or fails
DirectStart(req, dbOk) ==
    /\ dp.pc \in {"idle", "done"}
    /\ IF Falsy(req.orderId) \/ Falsy(req.userId) \/ Falsy(req.amount)
       THEN /\ dbOk
            /\ dp' = [IdleDirect EXCEPT !.pc = "done", !.resp = HttpBadRequest]
            /\ UNCHANGED <<payments, faults>>
       ELSE IF ~dbOk
       THEN /\ Failure
            /\ dp' = [IdleDirect EXCEPT !.pc = "done", !.resp = HttpServerError]
            /\ payments' = payments
       ELSE /\ Len(payments) < MaxPayments
            /\ payments' = Append(payments,
                   NewPayment(req.orderId, req.userId, req.amount,
                              IF req.method = "none" THEN "credit_card" ELSE req.method,
                              "direct"))
            /\ dp' = [IdleDirect EXCEPT !.pc = "inserted", !.paymentId = Len(payments) + 1]
            /\ faults' = faults
    /\ UNCHANGED <<orders, ordChan, payChan, queueVars, orderEvents, co,
                   flightVars, histVars>>
    /\ UNCHANGED <<nsVars, usVars>>

\* POST /payments after the INSERT resolves: the payment-completed message
\* when the channel exists, then kafkaProducer.send is issued
DirectPublish ==
    /\ dp.pc = "inserted"
    /\ IF payChan = "open"
       THEN LET m == PaymentProcessedMsg(dp.paymentId, payments[dp.paymentId]) IN
            /\ qPaymentProcessed' = qPaymentProcessed \cup {m}
            /\ published' = published \cup {m}
       ELSE UNCHANGED <<qPaymentProcessed, published>>
    /\ dp' = [dp EXCEPT !.pc = "kafka"]
    /\ UNCHANGED <<dbVars, ordChan, payChan, qOrderCreated, qNotifications,
                   qPaymentRequest, orderEvents, co, flightVars,
                   ackedReq, nacks, crashedReq, ackedDone, redone, applied, faults>>
    /\ UNCHANGED <<nsVars, usVars>>

\* POST /payments after kafkaProducer.send settles: 201 with the record, or
\* the rejection reaches the catch block and the answer is 500
DirectFinish(kafkaOk) ==
    /\ dp.pc = "kafka"
    /\ IF kafkaOk THEN faults' = faults ELSE Failure
    /\ dp' = [dp EXCEPT !.pc = "done",
                         !.resp = IF kafkaOk THEN HttpCreated ELSE HttpServerError]
    /\ UNCHANGED <<dbVars, ordChan, payChan, queueVars, orderEvents, co,
                   flightVars, histVars>>
    /\ UNCHANGED <<nsVars, usVars>>

\* ------------------------------------------------------------------ faults
\* the restarted service publishes a payment request for every pending order
OrdCrash_Republish ==
    /\ Failure
    /\ co' = IdleCall
    /\ qPaymentProcessed' = qPaymentProcessed \cup Msgs({h \in ordInflight : ~h.stale})
    /\ ordInflight' = {}
    /\ staleReady' = {}
    /\ ordChan' \in {"absent", "open"}
    /\ qPaymentRequest' = qPaymentRequest \cup
           {PaymentRequestMsg(o, orders[o]) :
               o \in {k \in 1..Len(orders) : orders[k].status = "pending"}}
    /\ UNCHANGED <<dbVars, payChan, qOrderCreated, qNotifications,
                   orderEvents, dp, payInflight, histVars>>
    /\ UNCHANGED <<nsVars, usVars>>

\* The order service process dies and is started again: the request in
\* progress is lost, the broker requeues its unacknowledged deliveries, and
\* the start-up connects to RabbitMQ or fails to
OrdCrash ==
    /\ Failure
    /\ co' = IdleCall
    /\ qPaymentProcessed' = qPaymentProcessed \cup Msgs({h \in ordInflight : ~h.stale})
    /\ ordInflight' = {}
    /\ staleReady' = {}
    /\ ordChan' \in {"absent", "open"}
    /\ UNCHANGED <<dbVars, payChan, qOrderCreated, qNotifications, qPaymentRequest,
                   orderEvents, dp, payInflight, histVars>>
    /\ UNCHANGED <<nsVars, usVars>>

\* The order service loses its channel: later sendToQueue, ack and nack calls
\* throw, and the broker requeues the unacknowledged deliveries
OrdChannelClose ==
    /\ Failure
    /\ ordChan = "open"
    /\ ordChan' = "closed"
    /\ staleReady' = qPaymentProcessed
    /\ qPaymentProcessed' = qPaymentProcessed \cup Msgs(ordInflight)
    /\ ordInflight' = {[h EXCEPT !.stale = TRUE] : h \in ordInflight}
    /\ UNCHANGED <<dbVars, payChan, qOrderCreated, qNotifications, qPaymentRequest,
                   orderEvents, co, dp, payInflight, histVars>>
    /\ UNCHANGED <<nsVars, usVars>>

PayCrash_DropUnacked ==
    /\ Failure
    /\ dp' = IdleDirect
    /\ crashedReq' = crashedReq \cup {h.msg.orderId : h \in payInflight}
    /\ payInflight' = {}
    /\ payChan' \in {"absent", "open"}
    /\ UNCHANGED <<dbVars, ordChan, qOrderCreated, qNotifications, qPaymentRequest,
                   qPaymentProcessed, orderEvents, co, ordInflight, staleReady,
                   published, ackedReq, nacks, ackedDone, redone, applied>>
    /\ UNCHANGED <<nsVars, usVars>>

\* The payment service process dies and is started again
PayCrash ==
    /\ Failure
    /\ dp' = IdleDirect
    /\ qPaymentRequest' = qPaymentRequest \cup Msgs(payInflight)
    /\ crashedReq' = crashedReq \cup {h.msg.orderId : h \in payInflight}
    /\ payInflight' = {}
    /\ payChan' \in {"absent", "open"}
    /\ UNCHANGED <<dbVars, ordChan, qOrderCreated, qNotifications, qPaymentProcessed,
                   orderEvents, co, ordInflight, staleReady, published, ackedReq, nacks,
                   ackedDone, redone, applied>>
    /\ UNCHANGED <<nsVars, usVars>>

\* ----------------------------------------------------- notification service
\* Several instances of the notification service share the table
\* notifications, the queue 'notifications', the consumer group of
\* 'order-events' and the Redis channel 'notifications'; each has its own Map
\* connections and its own sockets. The instances run the same code: the model
\* follows the sockets, the Map and the Redis subscriber of one instance, and
\* lets createNotification run on this instance (local) or on another one.
MaxSockets == 2
MaxNotifs == 2
MaxNotified == 1
MaxSubscribes == 2
MaxUsers == 1
MaxStored == 53
HistoryLimit == 50

Sockets == 1..MaxSockets
\* userId of a subscribe message: a user id, or none
SubscribeInputs == {1, 2, Absent}

\* Map operations on a function with a finite domain
MapSet(f, k, v) == [x \in DOMAIN f \cup {k} |-> IF x = k THEN v ELSE f[x]]
MapDelete(f, k) == [x \in DOMAIN f \ {k} |-> f[x]]

\* Array.prototype.indexOf: the first position of x, 0 when absent
IndexOf(seq, x) ==
    IF \E k \in 1..Len(seq) : seq[k] = x
    THEN CHOOSE k \in 1..Len(seq) : seq[k] = x /\ \A j \in 1..(k - 1) : seq[j] # x
    ELSE 0
\* Array.prototype.splice(index, 1)
Splice(seq, k) == SubSeq(seq, 1, k - 1) \o SubSeq(seq, k + 1, Len(seq))

\* the subscribe messages received so far, over all sockets
RECURSIVE Subscribes(_)
Subscribes(n) == IF n = 0 THEN 0 ELSE socks[n].subs + Subscribes(n - 1)

NewSocket == [state |-> "new", userId |-> Null, load |-> Absent, subs |-> 0]

\* `Your order #${orderId} has been created`
OrderText(orderId) == <<"Your order #", orderId, " has been created">>

\* the row INSERT ... RETURNING gives back: SERIAL id, the type defaulted to
\* 'info', created_at = CURRENT_TIMESTAMP (a clock that grows with each commit)
NewNotification(id, n) ==
    [id |-> id, userId |-> n.userId,
     type |-> IF n.type = "" THEN "info" ELSE n.type,
     title |-> n.title, message |-> n.message, data |-> n.data,
     createdAt |-> id]

\* JSON.stringify of a notification object: the Date becomes its ISO string;
\* JSON.parse of the result keeps the string
ToJSON(row) == [row EXCEPT !.createdAt = <<"iso", row.createdAt>>]

\* the object eachMessage passes to createNotification for an order.created event
EventNotification(event) ==
    [userId |-> event.userId, type |-> "order", title |-> "Order Created",
     message |-> OrderText(event.orderId), data |-> [orderId |-> event.orderId]]

LiveMsg(n) == [type |-> "notification", data |-> n]
HistoryMsg(ns) == [type |-> "notifications", data |-> ns]

\* SELECT ... WHERE user_id = u ORDER BY created_at DESC LIMIT 50, on the first
\* k rows of the table, mapped to objects and stringified
RECURSIVE RowsOf(_, _)
RowsOf(u, k) ==
    IF k = 0 THEN <<>>
    ELSE IF notifications[k].userId = u
         THEN <<ToJSON(notifications[k])>> \o RowsOf(u, k - 1)
         ELSE RowsOf(u, k - 1)
\* the SELECT has no LIMIT
History_NoLimit(u, k) == RowsOf(u, k)

\* SELECT ... WHERE user_id = $1 ORDER BY created_at DESC LIMIT 50 over the
\* first k rows
History(u, k) ==
    LET all == RowsOf(u, k) IN
    IF Len(all) > HistoryLimit THEN SubSeq(all, 1, HistoryLimit) ELSE all

\* the broadcast does not look at the notification's user: every entry is sent to
RECURSIVE AllEntries(_)
AllEntries(us) ==
    IF us = {} THEN <<>>
    ELSE LET u == CHOOSE x \in us : TRUE IN connections[u] \o AllEntries(us \ {u})
Targets_AnyUser(n) ==
    SelectSeq(AllEntries(DOMAIN connections), LAMBDA s : socks[s].state = "open")

\* forEach sends on every socket of the entry, whatever its readyState
Targets_NoStateCheck(n) ==
    IF n.userId \in DOMAIN connections THEN connections[n.userId] ELSE <<>>

\* the sockets a broadcast for notification n sends to, one element per send:
\* forEach over the entry, skipping sockets not OPEN
Targets(n) ==
    IF n.userId \in DOMAIN connections
    THEN SelectSeq(connections[n.userId], LAMBDA s : socks[s].state = "open")
    ELSE <<>>

RECURSIVE SendAll(_, _, _)
SendAll(log, targets, msg) ==
    IF targets = <<>> THEN log
    ELSE SendAll([log EXCEPT ![Head(targets)] = Append(@, msg)], Tail(targets), msg)

\* broadcastNotification(notification) on this instance
Broadcast(n) == sent' = SendAll(sent, Targets(n), LiveMsg(n))

\* wss.on('connection'): socket s reaches this instance
WsConnect(s) ==
    /\ socks[s].state = "new"
    /\ socks' = [socks EXCEPT ![s].state = "open"]
    /\ UNCHANGED <<opVars, notifications, connections, sent, pubsub, nInflight,
                   kOffset, ntfUnacked>>
    /\ UNCHANGED usVars

\* ws.on('message') with {type:'subscribe', userId: u}, up to the SELECT: the
\* socket is pushed on the entry of u and ws.userId is set; the query reads
\* the table. A message without userId is ignored.
WsSubscribe(s, u) ==
    /\ socks[s].state = "open"
    /\ socks[s].load = Absent
    /\ Subscribes(MaxSockets) < MaxSubscribes
    /\ IF Falsy(u)
       THEN UNCHANGED <<connections, socks>>
       ELSE LET entry == IF u \in DOMAIN connections THEN connections[u] ELSE <<>>
            IN /\ connections' = MapSet(connections, u, Append(entry, s))
               /\ socks' = [socks EXCEPT ![s].userId = u,
                                         ![s].load = Len(notifications),
                                         ![s].subs = @ + 1]
    /\ UNCHANGED <<opVars, notifications, sent, pubsub, nInflight, kOffset, ntfUnacked>>
    /\ UNCHANGED usVars

\* the catch block of the subscribe handler takes the socket out of the
\* registry entry of its user
WsHistory_UnregisterOnError(s, dbOk) ==
    /\ socks[s].load # Absent
    /\ socks' = [socks EXCEPT ![s].load = Absent]
    /\ IF dbOk
       THEN /\ sent' = IF socks[s].state = "open"
                       THEN [sent EXCEPT ![s] =
                               Append(@, HistoryMsg(History(socks[s].userId, socks[s].load)))]
                       ELSE sent
            /\ UNCHANGED <<faults, connections>>
       ELSE /\ Failure
            /\ UNCHANGED sent
            /\ LET u == socks[s].userId
                   index == IF u \in DOMAIN connections THEN IndexOf(connections[u], s) ELSE 0
               IN connections' = IF index > 0
                                  THEN MapSet(connections, u, Splice(connections[u], index))
                                  ELSE connections
    /\ UNCHANGED <<orders, payments, ordChan, payChan, queueVars, orderEvents, co, dp,
                   flightVars, histVars, notifications, pubsub,
                   nInflight, kOffset, ntfUnacked>>
    /\ UNCHANGED usVars

\* the subscribe handler after the SELECT settles: the history is sent, or
\* the error is logged; a send on a socket no longer OPEN sends nothing
WsHistory(s, dbOk) ==
    /\ socks[s].load # Absent
    /\ socks' = [socks EXCEPT ![s].load = Absent]
    /\ IF dbOk
       THEN /\ sent' = IF socks[s].state = "open"
                       THEN [sent EXCEPT ![s] =
                               Append(@, HistoryMsg(History(socks[s].userId, socks[s].load)))]
                       ELSE sent
            /\ UNCHANGED faults
       ELSE /\ Failure
            /\ UNCHANGED sent
    /\ UNCHANGED <<orders, payments, ordChan, payChan, queueVars, orderEvents, co, dp,
                   flightVars, histVars, notifications, connections, pubsub,
                   nInflight, kOffset, ntfUnacked>>
    /\ UNCHANGED usVars

\* the close handler never deletes the entry it emptied
WsClose_KeepEntry(s) ==
    /\ socks[s].state = "open"
    /\ socks' = [socks EXCEPT ![s].state = "closed"]
    /\ LET u == socks[s].userId
       IN IF u # Null /\ u \in DOMAIN connections
          THEN LET index == IndexOf(connections[u], s)
                   rest == IF index > 0 THEN Splice(connections[u], index)
                           ELSE connections[u]
               IN connections' = MapSet(connections, u, rest)
          ELSE UNCHANGED connections
    /\ UNCHANGED <<opVars, notifications, sent, pubsub, nInflight, kOffset, ntfUnacked>>
    /\ UNCHANGED usVars

\* ws.on('close'): one occurrence of the socket leaves the entry of ws.userId,
\* and the entry is deleted when that empties it
WsClose(s) ==
    /\ socks[s].state = "open"
    /\ socks' = [socks EXCEPT ![s].state = "closed"]
    /\ LET u == socks[s].userId
       IN IF u # Null /\ u \in DOMAIN connections
          THEN LET index == IndexOf(connections[u], s)
                   rest == IF index > 0 THEN Splice(connections[u], index)
                           ELSE connections[u]
               IN connections' = IF Len(rest) = 0 THEN MapDelete(connections, u)
                                  ELSE MapSet(connections, u, rest)
          ELSE UNCHANGED connections
    /\ UNCHANGED <<opVars, notifications, sent, pubsub, nInflight, kOffset, ntfUnacked>>
    /\ UNCHANGED usVars

\* the catch block logs the error and does not negative-acknowledge
NtfInsert_NoNack(local, m, dbOk) ==
    /\ m \in qNotifications
    /\ IF dbOk
       THEN /\ Len(notifications) < MaxNotifs
            /\ Cardinality(nInflight) < MaxInFlight
            /\ notifications' = Append(notifications,
                                       NewNotification(Len(notifications) + 1, m))
            /\ nInflight' = nInflight \cup
                   {[local |-> local, src |-> "queue", msg |-> m, pc |-> "saved",
                     nid |-> Len(notifications) + 1]}
            /\ qNotifications' = qNotifications \ {m}
            /\ ntfUnacked' = ntfUnacked \cup {m}
            /\ UNCHANGED faults
       ELSE /\ Failure
            /\ qNotifications' = qNotifications \ {m}
            /\ ntfUnacked' = ntfUnacked \cup {m}
            /\ UNCHANGED <<notifications, nInflight>>
    /\ UNCHANGED <<orders, payments, ordChan, payChan, qOrderCreated, qPaymentRequest,
                   qPaymentProcessed, orderEvents, co, dp, flightVars, histVars,
                   connections, socks, sent, pubsub, kOffset>>
    /\ UNCHANGED usVars

\* Consumer of 'notifications' on this instance (local) or on another one,
\* message m: createNotification's INSERT commits, or it fails and the
\* consumer's catch block negative-acknowledges with requeue
NtfInsert(local, m, dbOk) ==
    /\ m \in qNotifications
    /\ IF dbOk
       THEN /\ Len(notifications) < MaxNotifs
            /\ Cardinality(nInflight) < MaxInFlight
            /\ notifications' = Append(notifications,
                                       NewNotification(Len(notifications) + 1, m))
            /\ nInflight' = nInflight \cup
                   {[local |-> local, src |-> "queue", msg |-> m, pc |-> "saved",
                     nid |-> Len(notifications) + 1]}
            /\ qNotifications' = qNotifications \ {m}
            /\ ntfUnacked' = ntfUnacked \cup {m}
            /\ UNCHANGED faults
       ELSE /\ Failure
            /\ UNCHANGED <<notifications, nInflight, qNotifications, ntfUnacked>>
    /\ UNCHANGED <<orders, payments, ordChan, payChan, qOrderCreated, qPaymentRequest,
                   qPaymentProcessed, orderEvents, co, dp, flightVars, histVars,
                   connections, socks, sent, pubsub, kOffset>>
    /\ UNCHANGED usVars

\* a failed createNotification leaves the offset where it was: the event is
\* consumed again
KafkaInsert_RetryOnError(local, dbOk) ==
    /\ kOffset < Len(orderEvents)
    /\ \A h \in nInflight : h.src # "kafka"
    /\ kOffset' = IF dbOk THEN kOffset + 1 ELSE kOffset
    /\ LET event == orderEvents[kOffset + 1] IN
       IF event.key # "order.created"
       THEN /\ dbOk
            /\ UNCHANGED <<notifications, nInflight, faults>>
       ELSE IF dbOk
       THEN /\ Len(notifications) < MaxNotifs
            /\ Cardinality(nInflight) < MaxInFlight
            /\ notifications' = Append(notifications,
                   NewNotification(Len(notifications) + 1, EventNotification(event)))
            /\ nInflight' = nInflight \cup
                   {[local |-> local, src |-> "kafka", msg |-> EventNotification(event),
                     pc |-> "saved", nid |-> Len(notifications) + 1]}
            /\ UNCHANGED faults
       ELSE /\ Failure
            /\ UNCHANGED <<notifications, nInflight>>
    /\ UNCHANGED <<orders, payments, ordChan, payChan, queueVars, orderEvents, co, dp,
                   flightVars, histVars, connections, socks, sent, pubsub, ntfUnacked>>
    /\ UNCHANGED usVars

\* eachMessage of the Kafka consumer, on this instance (local) or on another
\* one, for the next event of 'order-events': for key 'order.created'
\* createNotification's INSERT commits, or it fails and the error is logged;
\* either way the consumer moves on
KafkaInsert(local, dbOk) ==
    /\ kOffset < Len(orderEvents)
    /\ \A h \in nInflight : h.src # "kafka"
    /\ kOffset' = kOffset + 1
    /\ LET event == orderEvents[kOffset + 1] IN
       IF event.key # "order.created"
       THEN /\ dbOk
            /\ UNCHANGED <<notifications, nInflight, faults>>
       ELSE IF dbOk
       THEN /\ Len(notifications) < MaxNotifs
            /\ Cardinality(nInflight) < MaxInFlight
            /\ notifications' = Append(notifications,
                   NewNotification(Len(notifications) + 1, EventNotification(event)))
            /\ nInflight' = nInflight \cup
                   {[local |-> local, src |-> "kafka", msg |-> EventNotification(event),
                     pc |-> "saved", nid |-> Len(notifications) + 1]}
            /\ UNCHANGED faults
       ELSE /\ Failure
            /\ UNCHANGED <<notifications, nInflight>>
    /\ UNCHANGED <<orders, payments, ordChan, payChan, queueVars, orderEvents, co, dp,
                   flightVars, histVars, connections, socks, sent, pubsub, ntfUnacked>>
    /\ UNCHANGED usVars

\* the message the user service sends to 'user-events' for user id
UserEvent(id) == [key |-> "user.created", userId |-> id]

\* POST /register of the user service reaching its Kafka send: the event of
\* the new user is appended to 'user-events'
RegisterUser ==
    /\ Len(userEvents) < MaxUsers
    /\ userEvents' = Append(userEvents, UserEvent(Len(userEvents) + 1))
    /\ UNCHANGED <<opVars, nsVars, uOffset>>

\* eachMessage of the Kafka consumer for the next message of 'user-events':
\* the test on topic and key decides whether createNotification is called;
\* either way the consumer moves on
KafkaUserEvent ==
    /\ uOffset < Len(userEvents)
    /\ \A h \in nInflight : h.src # "kafka"
    /\ uOffset' = uOffset + 1
    /\ LET topic == "user-events"
           event == userEvents[uOffset + 1]
           request == [userId |-> event.userId, type |-> "order", title |-> "Order Created",
                       message |-> OrderText(Absent), data |-> [orderId |-> Absent]]
       IN IF topic = "order-events" /\ event.key = "order.created"
          THEN /\ Len(notifications) < MaxNotifs
               /\ Cardinality(nInflight) < MaxInFlight
               /\ notifications' = Append(notifications,
                                          NewNotification(Len(notifications) + 1, request))
               /\ nInflight' = nInflight \cup
                      {[local |-> TRUE, src |-> "kafka", msg |-> request,
                        pc |-> "saved", nid |-> Len(notifications) + 1]}
          ELSE UNCHANGED <<notifications, nInflight>>
    /\ UNCHANGED <<opVars, connections, socks, sent, pubsub, kOffset, ntfUnacked, userEvents>>

\* the stringified row is published twice
NtfPublish_Twice(h, redisOk) ==
    /\ h \in nInflight
    /\ h.pc = "saved"
    /\ IF redisOk
       THEN /\ pubsub' = pubsub \o <<ToJSON(notifications[h.nid]), ToJSON(notifications[h.nid])>>
            /\ nInflight' = (nInflight \ {h}) \cup {[h EXCEPT !.pc = "published"]}
            /\ UNCHANGED <<qNotifications, ntfUnacked, faults>>
       ELSE /\ Failure
            /\ nInflight' = nInflight \ {h}
            /\ IF h.src = "queue"
               THEN /\ qNotifications' = qNotifications \cup {h.msg}
                    /\ ntfUnacked' = ntfUnacked \ {h.msg}
               ELSE UNCHANGED <<qNotifications, ntfUnacked>>
            /\ UNCHANGED pubsub
    /\ UNCHANGED <<orders, payments, ordChan, payChan, qOrderCreated, qPaymentRequest,
                   qPaymentProcessed, orderEvents, co, dp, flightVars, histVars,
                   notifications, connections, socks, sent, kOffset>>
    /\ UNCHANGED usVars

\* createNotification after the INSERT resolves: redisClient.publish hands
\* the stringified row to the subscriber of every instance, or it rejects; the
\* rejection leaves createNotification before the local broadcast, and the
\* queue consumer negative-acknowledges with requeue (the Kafka consumer logs)
NtfPublish(h, redisOk) ==
    /\ h \in nInflight
    /\ h.pc = "saved"
    /\ IF redisOk
       THEN /\ pubsub' = Append(pubsub, ToJSON(notifications[h.nid]))
            /\ nInflight' = (nInflight \ {h}) \cup {[h EXCEPT !.pc = "published"]}
            /\ UNCHANGED <<qNotifications, ntfUnacked, faults>>
       ELSE /\ Failure
            /\ nInflight' = nInflight \ {h}
            /\ IF h.src = "queue"
               THEN /\ qNotifications' = qNotifications \cup {h.msg}
                    /\ ntfUnacked' = ntfUnacked \ {h.msg}
               ELSE UNCHANGED <<qNotifications, ntfUnacked>>
            /\ UNCHANGED pubsub
    /\ UNCHANGED <<orders, payments, ordChan, payChan, qOrderCreated, qPaymentRequest,
                   qPaymentProcessed, orderEvents, co, dp, flightVars, histVars,
                   notifications, connections, socks, sent, kOffset>>
    /\ UNCHANGED usVars

\* the local broadcast passes the request object instead of the stored row
NtfFinish_BroadcastsRequest(h) ==
    /\ h \in nInflight
    /\ h.pc = "published"
    /\ IF h.local THEN Broadcast(h.msg) ELSE UNCHANGED sent
    /\ nInflight' = nInflight \ {h}
    /\ ntfUnacked' = IF h.src = "queue" THEN ntfUnacked \ {h.msg} ELSE ntfUnacked
    /\ UNCHANGED <<opVars, notifications, connections, socks, pubsub, kOffset>>
    /\ UNCHANGED usVars

\* createNotification after the publish resolves: the broadcast on the
\* instance that runs the call, the return, and the queue consumer's ack
NtfFinish(h) ==
    /\ h \in nInflight
    /\ h.pc = "published"
    /\ IF h.local THEN Broadcast(ToJSON(notifications[h.nid])) ELSE UNCHANGED sent
    /\ nInflight' = nInflight \ {h}
    /\ ntfUnacked' = IF h.src = "queue" THEN ntfUnacked \ {h.msg} ELSE ntfUnacked
    /\ UNCHANGED <<opVars, notifications, connections, socks, pubsub, kOffset>>
    /\ UNCHANGED usVars

\* the subscriber callback parses the message and does not broadcast it
SubDeliver_NoBroadcast ==
    /\ pubsub # <<>>
    /\ pubsub' = Tail(pubsub)
    /\ UNCHANGED <<opVars, notifications, connections, socks, sent, nInflight,
                   kOffset, ntfUnacked>>
    /\ UNCHANGED usVars

\* the Redis subscriber of this instance receives the next message of the
\* channel: JSON.parse, then broadcastNotification
SubDeliver ==
    /\ pubsub # <<>>
    /\ Broadcast(Head(pubsub))
    /\ pubsub' = Tail(pubsub)
    /\ UNCHANGED <<opVars, notifications, connections, socks, nInflight, kOffset, ntfUnacked>>
    /\ UNCHANGED usVars

\* ------------------------------------------------------------ specification
Init ==
    /\ orders = <<>>
    /\ payments = <<>>
    /\ ordChan \in {"absent", "open"}
    /\ payChan \in {"absent", "open"}
    /\ qOrderCreated = {}
    /\ qNotifications = {}
    /\ qPaymentRequest = {}
    /\ qPaymentProcessed = {}
    /\ orderEvents = <<>>
    /\ co = IdleCall
    /\ dp = IdleDirect
    /\ payInflight = {}
    /\ ordInflight = {}
    /\ staleReady = {}
    /\ published = {}
    /\ ackedReq = {}
    /\ nacks = {}
    /\ crashedReq = {}
    /\ ackedDone = {}
    /\ redone = {}
    /\ applied = {}
    /\ faults = [persist |-> 0, other |-> 0]
    /\ notifications = <<>>
    /\ connections = <<>>
    /\ socks = [s \in Sockets |-> NewSocket]
    /\ sent = [s \in Sockets |-> <<>>]
    /\ pubsub = <<>>
    /\ nInflight = {}
    /\ kOffset = 0
    /\ ntfUnacked = {}
    /\ userEvents = <<>>
    /\ uOffset = 0

CreateOrder ==
    \/ \E req \in OrderInputs, dbOk \in BOOLEAN : CreateOrderStart(req, dbOk)
    \/ CreateOrderPublish
    \/ \E kafkaOk \in BOOLEAN : CreateOrderFinish(kafkaOk)

OnPaymentProcessed ==
    \/ \E m \in qPaymentProcessed \cup staleReady, dbOk \in BOOLEAN : OrdUpdate(m, dbOk)
    \/ \E h \in ordInflight : OrdAck(h)

OnPaymentRequest ==
    \/ \E m \in qPaymentRequest, dbOk \in BOOLEAN : PayInsert(m, dbOk)
    \/ \E h \in payInflight : PayPublish(h)
    \/ \E h \in payInflight, kafkaOk \in BOOLEAN : PayFinish(h, kafkaOk)

ProcessPaymentDirect ==
    \/ \E req \in DirectInputs, dbOk \in BOOLEAN : DirectStart(req, dbOk)
    \/ DirectPublish
    \/ \E kafkaOk \in BOOLEAN : DirectFinish(kafkaOk)

Fault == OrdCrash \/ OrdChannelClose \/ PayCrash

Next == CreateOrder \/ OnPaymentProcessed \/ OnPaymentRequest \/ ProcessPaymentDirect \/ Fault

Spec == Init /\ [][Next]_vars

\* The same system when the broker keeps delivering and no process dies: the
\* event loop runs every pending continuation and the broker hands over every
\* ready message; statements and sends may still fail, MaxFaults times in all.
LiveNext == CreateOrder \/ OnPaymentProcessed \/ OnPaymentRequest \/ ProcessPaymentDirect

Fairness ==
    /\ WF_vars(\E m \in qPaymentProcessed, dbOk \in BOOLEAN : OrdUpdate(m, dbOk))
    /\ WF_vars(\E h \in ordInflight : OrdAck(h))
    /\ WF_vars(\E m \in qPaymentRequest, dbOk \in BOOLEAN : PayInsert(m, dbOk))
    /\ WF_vars(\E h \in payInflight : PayPublish(h))
    /\ WF_vars(\E h \in payInflight, kafkaOk \in BOOLEAN : PayFinish(h, kafkaOk))

LiveSpec == Init /\ [][LiveNext]_vars /\ Fairness

\* ---- the order service and the notification service, payment service down
OnSocket ==
    \/ \E s \in Sockets : WsConnect(s)
    \/ \E s \in Sockets, u \in SubscribeInputs : WsSubscribe(s, u)
    \/ \E s \in Sockets, dbOk \in BOOLEAN : WsHistory(s, dbOk)
    \/ \E s \in Sockets : WsClose(s)

OnNotification ==
    \/ \E local \in BOOLEAN, m \in qNotifications, dbOk \in BOOLEAN :
          NtfInsert(local, m, dbOk)
    \/ \E local \in BOOLEAN, dbOk \in BOOLEAN : KafkaInsert(local, dbOk)
    \/ \E h \in nInflight, redisOk \in BOOLEAN : NtfPublish(h, redisOk)
    \/ \E h \in nInflight : NtfFinish(h)

\* the order service takes one valid request
PlaceOrder ==
    \/ /\ Len(orders) < MaxNotified
       /\ \E req \in {r \in OrderInputs : ~Falsy(r.userId) /\ ~Falsy(r.items)
                                               /\ ~Falsy(r.totalAmount)} :
              CreateOrderStart(req, TRUE)
    \/ CreateOrderPublish
    \/ \E kafkaOk \in BOOLEAN : CreateOrderFinish(kafkaOk)

NotifNext == PlaceOrder \/ OnSocket \/ OnNotification \/ SubDeliver

NotifSpec == Init /\ [][NotifNext]_vars

\* ---- both consumers of the notification service with no client connected:
\* the order service takes valid requests and the user service registers users
PlaceOrders ==
    \/ \E req \in {r \in OrderInputs : ~Falsy(r.userId) /\ ~Falsy(r.items)
                                            /\ ~Falsy(r.totalAmount)} :
          CreateOrderStart(req, TRUE)
    \/ CreateOrderPublish
    \/ \E kafkaOk \in BOOLEAN : CreateOrderFinish(kafkaOk)

OnEvent ==
    \/ \E local \in BOOLEAN, dbOk \in BOOLEAN : KafkaInsert(local, dbOk)
    \/ KafkaUserEvent

OnCreated ==
    \/ \E local \in BOOLEAN, m \in qNotifications, dbOk \in BOOLEAN :
          NtfInsert(local, m, dbOk)
    \/ \E h \in nInflight, redisOk \in BOOLEAN : NtfPublish(h, redisOk)
    \/ \E h \in nInflight : NtfFinish(h)

KafkaNext == PlaceOrders \/ RegisterUser \/ OnEvent \/ OnCreated \/ SubDeliver

KafkaSpec == Init /\ [][KafkaNext]_vars

\* ---- the sockets of this instance over a table that already holds rows
\* the sizes of the table: empty, one row, around the LIMIT, and well above it
StoredSizes == {0, 1, HistoryLimit, HistoryLimit + 1, MaxStored}

\* the user of stored row id: all rows of user 1, or a row of user 2 after
\* every half LIMIT of rows of user 1
OwnerOf(mixed, id) == IF mixed /\ id % (HistoryLimit \div 2 + 1) = 0 THEN 2 ELSE 1

\* the table after n order notifications were created
Stored(mixed, n) ==
    [id \in 1..n |->
        NewNotification(id, [userId |-> OwnerOf(mixed, id), type |-> "order",
                             title |-> "Order Created", message |-> OrderText(id),
                             data |-> [orderId |-> id]])]

HistoryInit ==
    /\ orders = <<>>
    /\ payments = <<>>
    /\ ordChan = "absent"
    /\ payChan = "absent"
    /\ qOrderCreated = {}
    /\ qNotifications = {}
    /\ qPaymentRequest = {}
    /\ qPaymentProcessed = {}
    /\ orderEvents = <<>>
    /\ co = IdleCall
    /\ dp = IdleDirect
    /\ payInflight = {}
    /\ ordInflight = {}
    /\ staleReady = {}
    /\ published = {}
    /\ ackedReq = {}
    /\ nacks = {}
    /\ crashedReq = {}
    /\ ackedDone = {}
    /\ redone = {}
    /\ applied = {}
    /\ faults = [persist |-> 0, other |-> 0]
    /\ \E mixed \in BOOLEAN, n \in StoredSizes : notifications = Stored(mixed, n)
    /\ connections = <<>>
    /\ socks = [s \in Sockets |-> NewSocket]
    /\ sent = [s \in Sockets |-> <<>>]
    /\ pubsub = <<>>
    /\ nInflight = {}
    /\ kOffset = 0
    /\ ntfUnacked = {}
    /\ userEvents = <<>>
    /\ uOffset = 0

HistorySpec == HistoryInit /\ [][OnSocket]_vars

\* ---- the three services together while the payment consumer's statements
\* and sends succeed, the notifications are created on this instance and the
\* history queries succeed
PaymentsMade ==
    \/ \E m \in qPaymentRequest : PayInsert(m, TRUE)
    \/ \E h \in payInflight : PayPublish(h)
    \/ \E h \in payInflight : PayFinish(h, TRUE)

CreatedHere ==
    \/ \E m \in qNotifications : NtfInsert(TRUE, m, TRUE)
    \/ KafkaInsert(TRUE, TRUE)
    \/ \E h \in nInflight, redisOk \in BOOLEAN : NtfPublish(h, redisOk)
    \/ \E h \in nInflight : NtfFinish(h)

SocketsServed ==
    \/ \E s \in Sockets : WsConnect(s)
    \/ \E s \in Sockets, u \in SubscribeInputs : WsSubscribe(s, u)
    \/ \E s \in Sockets : WsHistory(s, TRUE)
    \/ \E s \in Sockets : WsClose(s)

RecordNext == PlaceOrder \/ PaymentsMade \/ CreatedHere \/ SocketsServed \/ SubDeliver

RecordSpec == Init /\ [][RecordNext]_vars

\* ---- the sockets of this instance while the notifications are created on
\* other instances, with a Redis channel that keeps delivering
OnRemoteNotification ==
    \/ \E m \in qNotifications, dbOk \in BOOLEAN : NtfInsert(FALSE, m, dbOk)
    \/ \E dbOk \in BOOLEAN : KafkaInsert(FALSE, dbOk)
    \/ \E h \in nInflight, redisOk \in BOOLEAN : NtfPublish(h, redisOk)
    \/ \E h \in nInflight : NtfFinish(h)

NotifLiveNext == PlaceOrder \/ OnSocket \/ OnRemoteNotification \/ SubDeliver

NotifLive == Init /\ [][NotifLiveNext]_vars /\ WF_vars(SubDeliver)

\* ------------------------------------------------------------------ claims
\* the handler's own reading of "present": the field passes the !field test
FieldsPresent(req) == ~Falsy(req.userId) /\ ~Falsy(req.items) /\ ~Falsy(req.totalAmount)

\* a step in which a POST /orders call whose three fields are present sends
\* its response
ValidCallReturns ==
    /\ co'.pc = "done"
    /\ \/ \E req \in OrderInputs, dbOk \in BOOLEAN :
             FieldsPresent(req) /\ CreateOrderStart(req, dbOk)
       \/ CreateOrderPublish
       \/ \E kafkaOk \in BOOLEAN : CreateOrderFinish(kafkaOk)

OrderIds == 1..Len(orders)
PaymentIds == 1..Len(payments)
PaymentsOf(o) == {j \in PaymentIds : payments[j].orderId = o}

\* C1 as stated: every createOrder call with userId, items and totalAmount all
\* present leaves, when it returns, an Order with status 'pending' in the
\* store, whatever the broker and the event log do.
C1_AsStated ==
    [][ValidCallReturns
         => (co'.orderId \in 1..Len(orders') /\ orders'[co'.orderId].status = "pending")]_vars

\* C1 (amended): when a createOrder call with all three fields present whose
\* INSERT succeeded returns, with 201 or with 500, the Order it inserted is in
\* the store, and its status is 'pending' unless a payment-completed message of
\* a direct payment naming it was applied before the return.
C1_PersistedAtReturn ==
    [][(ValidCallReturns /\ co'.orderId # Null)
         => /\ co'.orderId \in 1..Len(orders')
            /\ \/ orders'[co'.orderId].status = "pending"
               \/ /\ orders'[co'.orderId].status = "paid"
                  /\ \E m \in applied' : /\ m.orderId = co'.orderId
                                         /\ payments'[m.paymentId].via = "direct"]_vars

\* a call returned 500 because a queue publish threw, and its order is in the
\* store with status 'pending'
C1_Witness ==
    /\ co.pc = "done"
    /\ co.resp = HttpServerError
    /\ co.orderId \in OrderIds
    /\ orders[co.orderId].status = "pending"

OrderPaidByOwnPayment(o) ==
    /\ o \in OrderIds
    /\ orders[o].status = "paid"
    /\ orders[o].paymentId \in PaymentIds
    /\ payments[orders[o].paymentId].orderId = o

\* C2: once the payment request of order O has been handled and acknowledged,
\* order O eventually has status 'paid' and the payment id of a Payment row
\* of O, when deliveries and continuations are fair.
C2_EventuallyPaid ==
    \A o \in 1..MaxOrders : (o \in ackedReq) ~> OrderPaidByOwnPayment(o)

\* an acknowledged payment request whose order is paid, after a retry
C2_Witness ==
    \E o \in ackedReq : OrderPaidByOwnPayment(o) /\ nacks # {}

\* C3: an order with status 'paid' has a Payment row naming it.
C3_PaidHasPayment ==
    \A o \in OrderIds : orders[o].status = "paid" => PaymentsOf(o) # {}

\* a paid order while another order is still pending
C3_Witness ==
    \E o, q \in OrderIds : orders[o].status = "paid" /\ orders[q].status = "pending"

\* C4: every message published on 'order.payment.processed' names a Payment row
\* that was in the table before the publishing step, and carries that row's
\* order id.
C4_PaymentBeforeSignal ==
    [][\A m \in published' \ published :
          /\ m.paymentId \in PaymentIds
          /\ payments[m.paymentId].orderId = m.orderId]_vars

\* both the queue consumer and the direct endpoint have published
C4_Witness ==
    \E m, n \in published : /\ payments[m.paymentId].via = "queue"
                            /\ payments[n.paymentId].via = "direct"

C6_AckIffUpdated ==
    [][/\ \A m \in qPaymentProcessed :
             (ordChan = "open" /\ OrdUpdate(m, FALSE))
               => /\ m \in qPaymentProcessed'
                  /\ orders' = orders
                  /\ ackedDone' = ackedDone
          /\ \A h \in ordInflight :
             (~h.stale /\ OrdAck(h))
               => /\ h.msg \in applied
                  /\ h.msg \in ackedDone'
                  /\ h.msg \notin qPaymentProcessed'
          /\ ackedDone' \subseteq applied']_vars

\* an UPDATE failed and was requeued, and a message was acknowledged
C6_Witness ==
    /\ "update" \in nacks
    /\ ackedDone # {}

\* C7: in the consumer of 'payment.request' a handler whose INSERT failed
\* negative-acknowledges with requeue: the message stays in the queue, no
\* Payment row is added, no payment-completed message is published and the
\* request is not acknowledged.
C7_PersistFailureRequeues ==
    [][\A m \in qPaymentRequest :
          PayInsert(m, FALSE)
            => /\ m \in qPaymentRequest'
               /\ payments' = payments
               /\ published' = published
               /\ qPaymentProcessed' = qPaymentProcessed
               /\ ackedReq' = ackedReq]_vars

\* an INSERT of the consumer failed and the request is back in the queue
C7_Witness ==
    /\ "persist" \in nacks
    /\ qPaymentRequest # {}

\* C8 as stated: a failed send to 'payment-events' never makes the consumer of
\* 'payment.request' negative-acknowledge the message.
C8_KafkaNeverNacks ==
    "kafka" \notin nacks

\* C9: when the send to 'order-events' fails, createOrder still publishes the
\* payment request if the channel is open and still answers 201 unless the
\* queue publish itself throws; the order row is untouched.
C9_KafkaFailureHarmless ==
    [][CreateOrderFinish(FALSE)
         => /\ orders' = orders
            /\ co.orderId \in OrderIds
            /\ ordChan # "closed" => co'.resp = HttpCreated
            /\ ordChan = "open"
                 => PaymentRequestMsg(co.orderId, orders[co.orderId]) \in qPaymentRequest']_vars

\* a call answered 201 and published its payment request although its event
\* is missing from 'order-events'
C9_Witness ==
    /\ co.pc = "done"
    /\ co.resp = HttpCreated
    /\ co.orderId \in OrderIds
    /\ \A i \in 1..Len(orderEvents) : orderEvents[i].orderId # co.orderId
    /\ \E m \in qPaymentRequest : m.orderId = co.orderId

\* C10 as stated: a payment request that was acknowledged, and was in no
\* handler when the process crashed, produced exactly one Payment row.
C10_OnePaymentPerRequest ==
    \A o \in ackedReq \ crashedReq :
        Cardinality({j \in PaymentsOf(o) : payments[j].via = "queue"}) = 1

\* C11: a crash of the payment service after the INSERT of a payment request
\* and before its ack keeps the Payment row and makes the broker hand the
\* request over again; the consumer inserts with no look-up by order id, so a
\* second Payment row for the same order is reachable (C11_Witness).
C11_CrashRedelivers ==
    [][PayCrash
         => /\ payments' = payments
            /\ \A h \in payInflight :
                  /\ h.msg \in qPaymentRequest'
                  /\ h.paymentId \in 1..Len(payments')
                  /\ payments'[h.paymentId].orderId = h.msg.orderId]_vars

\* two Payment rows of the queue consumer for one order whose request was in
\* flight at a crash, with no Kafka failure involved
C11_Witness ==
    \E o \in crashedReq :
        /\ Cardinality({j \in PaymentsOf(o) : payments[j].via = "queue"}) = 2
        /\ "kafka" \notin nacks

\* ---- claims on the notification service
\* socket s is in the registry entry of user u
Registered(s, u) ==
    /\ u \in DOMAIN connections
    /\ \E k \in 1..Len(connections[u]) : connections[u][k] = s
\* the positions of the live pushes of notification id in a socket's log
PushesOf(log, id) ==
    {k \in 1..Len(log) : log[k].type = "notification" /\ log[k].data.id = id}
\* the positions of the history messages in a socket's log
HistoriesOf(log) == {k \in 1..Len(log) : log[k].type = "notifications"}
\* the createNotification call h ends in this step
CallEnds(h) == h \in nInflight /\ \A g \in nInflight' : g.nid # h.nid

\* C12 as stated: when a createNotification call that persisted its record
\* ends on this instance, every open socket registered under the record's
\* user has received a live push of it, also when the Redis publish failed.
C12_PushDespiteCache ==
    [][\A h \in nInflight :
         (h.local /\ CallEnds(h))
           => \A s \in Sockets :
                (socks[s].state = "open" /\ Registered(s, notifications[h.nid].userId))
                  => PushesOf(sent'[s], h.nid) # {}]_vars

\* notification id is fanned out: no call holds it and no echo of it is pending
Settled(id) ==
    /\ \A h \in nInflight : h.nid # id
    /\ \A k \in 1..Len(pubsub) : pubsub[k].id # id
\* socket s, which sent one subscribe message, sent it before row id was inserted
SubscribedBefore(s, id) ==
    \/ socks[s].load # Absent /\ socks[s].load < id
    \/ \E k \in HistoriesOf(sent[s]) :
          \A j \in 1..Len(sent[s][k].data) : sent[s][k].data[j].id # id
\* this step is a broadcast of notification id on this instance
BroadcastOf(id) ==
    \/ \E h \in nInflight : h.local /\ h.nid = id /\ NtfFinish(h)
    \/ pubsub # <<>> /\ Head(pubsub).id = id /\ SubDeliver

\* C13 as stated: with no failure in the run, once a notification is fanned
\* out, every open socket that subscribed once as its user before it was
\* created has exactly one live push of it, echo included.
C13_ExactlyOnePush ==
    \A s \in Sockets, id \in 1..Len(notifications) :
        (/\ faults = [persist |-> 0, other |-> 0]
         /\ Settled(id)
         /\ socks[s].state = "open" /\ socks[s].subs = 1
         /\ Registered(s, notifications[id].userId)
         /\ SubscribedBefore(s, id))
          => Cardinality(PushesOf(sent[s], id)) = 1

\* C13 amended: a socket that subscribed once receives exactly one live push
\* of a notification per broadcast of it on its instance (when it is open and
\* registered under the notification's user, none otherwise), and a
\* notification is broadcast at most twice there: by the local call and by the
\* echo of the publish.
C13_OnePushPerBroadcast ==
    [][\A s \in Sockets, id \in 1..Len(notifications') :
         socks[s].subs <= 1
           => /\ Cardinality(PushesOf(sent'[s], id)) <= 2
              /\ Cardinality(PushesOf(sent'[s], id)) - Cardinality(PushesOf(sent[s], id))
                   = IF /\ BroadcastOf(id)
                        /\ socks[s].state = "open"
                        /\ Registered(s, notifications[id].userId)
                     THEN 1 ELSE 0]_vars

\* two sockets subscribed once as the same user, both open, each with the
\* local push and the echoed push of one notification, in a run without failure
C13_Witness ==
    /\ faults = [persist |-> 0, other |-> 0]
    /\ \E id \in 1..Len(notifications) :
         /\ Settled(id)
         /\ \A s \in Sockets :
              /\ socks[s].state = "open" /\ socks[s].subs = 1
              /\ Registered(s, notifications[id].userId)
              /\ Cardinality(PushesOf(sent[s], id)) = 2

\* the user ids socket s sent a subscribe message with: its ws.userId, and
\* the entries it is still listed in
SubscribedAs(s) ==
    (IF socks[s].userId = Null THEN {} ELSE {socks[s].userId})
      \cup {u \in DOMAIN connections : Registered(s, u)}

\* C14: every live push on a socket is for a user id the socket subscribed
\* with, whether it came from the local broadcast or from the pub/sub
\* subscriber; a socket that never subscribed has no push.
C14_Isolation ==
    \A s \in Sockets :
        /\ \A k \in 1..Len(sent[s]) :
              sent[s][k].type = "notification"
                => sent[s][k].data.userId \in SubscribedAs(s)
        /\ socks[s].subs = 0 => sent[s] = <<>>

\* a notification is fanned out and pushed to a socket of its user while an
\* open socket registered under another user has no push
C14_Witness ==
    \E id \in 1..Len(notifications), s, t \in Sockets :
        /\ Settled(id)
        /\ PushesOf(sent[s], id) # {}
        /\ socks[t].state = "open" /\ socks[t].load = Absent
        /\ SubscribedAs(t) # {}
        /\ notifications[id].userId \notin SubscribedAs(t)
        /\ \A k \in 1..Len(sent[t]) : sent[t][k].type # "notification"

\* C15: the data of every live push on a socket is the stringified form of a
\* row of the table notifications: same id, user, type, title, message, data
\* and creation time; no push announces a record that is not stored.
C15_ContentFidelity ==
    \A s \in Sockets :
        \A k \in 1..Len(sent[s]) :
            sent[s][k].type = "notification"
              => \E id \in 1..Len(notifications) :
                    /\ sent[s][k].data = ToJSON(notifications[id])
                    /\ notifications[id].id = id

\* a socket holds a push of a stored notification made from the order
\* service's request: its title, text and data
C15_Witness ==
    \E s \in Sockets, id \in 1..Len(notifications) :
        /\ PushesOf(sent[s], id) # {}
        /\ notifications[id].title = "Order Created"
        /\ notifications[id].data = [orderId |-> 1]
        /\ notifications[id].message = OrderText(1)

\* C16 as stated: a socket that subscribed once and got a notification inside
\* its history reply (it subscribed after the record was persisted) never
\* gets a live push of that notification.
C16_HistoryOnly ==
    \A s \in Sockets, id \in 1..Len(notifications) :
        (/\ socks[s].subs = 1
         /\ \E k \in HistoriesOf(sent[s]) :
               \E j \in 1..Len(sent[s][k].data) : sent[s][k].data[j].id = id)
          => PushesOf(sent[s], id) = {}

\* C17 as stated: an entry of the registry is there only while a socket that
\* subscribed under its user is not closed; once they have all closed the
\* entry is gone, whatever subscribe messages they sent.
C17_NoEntryAfterClose ==
    \A u \in DOMAIN connections :
        \E s \in Sockets : u \in SubscribedAs(s) /\ socks[s].state # "closed"

\* C18 as stated: on a socket that sent one subscribe message the server
\* sends at most one history message, and every live push on it comes after
\* the history message.
C18_HistoryFirst ==
    \A s \in Sockets :
        socks[s].subs <= 1
          => /\ Cardinality(HistoriesOf(sent[s])) <= 1
             /\ \A k \in 1..Len(sent[s]) :
                   sent[s][k].type = "notification"
                     => \E j \in HistoriesOf(sent[s]) : j < k

\* C19: a notification created on another instance whose publish the Redis
\* channel carries to this instance's subscriber reaches, as a live push,
\* every socket that is open and registered under its user here (unless the
\* socket closes first).
C19_CrossInstance ==
    \A s \in Sockets, id \in 1..MaxNotifs :
        (/\ \E k \in 1..Len(pubsub) : /\ pubsub[k].id = id
                                     /\ Registered(s, pubsub[k].userId)
         /\ socks[s].state = "open")
          ~> (PushesOf(sent[s], id) # {} \/ socks[s].state = "closed")

\* both sockets are open, registered under the user of a notification that
\* another instance created, and hold its push
C19_Witness ==
    \E id \in 1..Len(notifications) :
        /\ Settled(id)
        /\ \A s \in Sockets :
              /\ socks[s].state = "open"
              /\ Registered(s, notifications[id].userId)
              /\ PushesOf(sent[s], id) # {}

\* C20: in the consumer of 'notifications' a delivery is acknowledged when
\* createNotification returns and negative-acknowledged with requeue when it
\* throws (failed INSERT, failed publish); a delivery is unsettled exactly
\* while its handler runs, so none is left without ack or nack and none gets
\* a second settlement.
C20_AckOrNack ==
    [][/\ \A h \in nInflight :
            /\ (h.src = "queue" /\ NtfFinish(h))
                 => h.msg \notin ntfUnacked' /\ h.msg \notin qNotifications'
            /\ (h.src = "queue" /\ NtfPublish(h, FALSE))
                 => h.msg \notin ntfUnacked' /\ h.msg \in qNotifications'
       /\ \A local \in BOOLEAN, m \in qNotifications :
            NtfInsert(local, m, FALSE)
              => m \notin ntfUnacked' /\ m \in qNotifications'
       /\ ntfUnacked' = {h.msg : h \in {g \in nInflight' : g.src = "queue"}}]_vars

\* a delivery was acknowledged after its record was stored: the row made from
\* the queue message exists, no handler runs, nothing is unsettled or requeued
C20_Witness ==
    /\ Len(notifications) = 1
    /\ kOffset = 0
    /\ nInflight = {}
    /\ ntfUnacked = {}
    /\ qNotifications = {}
    /\ faults = [persist |-> 0, other |-> 0]

\* C21: a POST /orders whose userId, items or totalAmount is absent is
\* answered 400 at once and touches nothing: no Order row, no message on any
\* queue, no event on 'order-events'.
C21_RejectedNoEffect ==
    [][\A req \in OrderInputs, dbOk \in BOOLEAN :
         (~FieldsPresent(req) /\ CreateOrderStart(req, dbOk))
           => /\ co'.pc = "done" /\ co'.resp = HttpBadRequest /\ co'.orderId = Null
              /\ UNCHANGED <<orders, payments, queueVars, orderEvents>>]_vars

\* a request without a field was answered 400 after an earlier order had been
\* stored and published; store and queues hold that one order only
C21_Witness ==
    /\ co.pc = "done" /\ co.resp = HttpBadRequest
    /\ Len(orders) = 1
    /\ \A m \in qPaymentRequest \cup qOrderCreated : m.orderId = 1
    /\ Len(orderEvents) <= 1

\* C22 as stated: a POST /payments call that stored a Payment has published
\* its payment-completed message when the channel exists, and answers 201
\* with the record, also when the send to 'payment-events' failed.
C22_DirectLikeQueue ==
    (dp.pc \in {"kafka", "done"} /\ dp.paymentId # Null)
      => /\ payChan = "open"
              => PaymentProcessedMsg(dp.paymentId, payments[dp.paymentId]) \in published
         /\ dp.pc = "done" => dp.resp = HttpCreated

\* the events of 'order-events' about order o
EventsOf(log, o) == {k \in 1..Len(log) : log[k].orderId = o}

\* C23: with the channel open, createOrder publishes the order-created message
\* and the notification request right after the INSERT, while neither the
\* event nor the payment request of the order exists yet; the event is
\* appended once the Kafka send succeeds, and the payment request
\* {orderId, userId, amount = total amount of the stored order} is published
\* last, when the two queue messages are out.
C23_PublishOrder ==
    [][/\ (CreateOrderPublish /\ ordChan = "open")
            => /\ \E m \in qOrderCreated' \ qOrderCreated : m.orderId = co.orderId
               /\ \E m \in qNotifications' \ qNotifications :
                      /\ m.title = "Order Created"
                      /\ m.data.orderId = co.orderId
               /\ EventsOf(orderEvents', co.orderId) = {}
               /\ \A m \in qPaymentRequest' : m.orderId # co.orderId
       /\ \A kafkaOk \in BOOLEAN :
            (CreateOrderFinish(kafkaOk) /\ ordChan = "open")
              => /\ qPaymentRequest' = qPaymentRequest \cup
                        {[orderId |-> co.orderId,
                          userId |-> orders[co.orderId].userId,
                          amount |-> orders[co.orderId].totalAmount]}
                 /\ \A m \in qPaymentRequest : m.orderId # co.orderId
                 /\ \E m \in qOrderCreated : m.orderId = co.orderId
                 /\ \E m \in qNotifications : m.data.orderId = co.orderId
                 /\ kafkaOk => /\ Len(orderEvents') = Len(orderEvents) + 1
                               /\ orderEvents'[Len(orderEvents')].orderId = co.orderId]_vars

\* a call answered 201 with its four publications out: both queue messages,
\* the event, and the payment request carrying the order's ids and total
C23_Witness ==
    /\ co.pc = "done" /\ co.resp = HttpCreated
    /\ \E m \in qOrderCreated : m.orderId = co.orderId
    /\ \E m \in qNotifications : m.data.orderId = co.orderId
    /\ EventsOf(orderEvents, co.orderId) # {}
    /\ [orderId |-> co.orderId, userId |-> 1, amount |-> 20] \in qPaymentRequest

\* order o is stored, the call that stored it is over, and no payment request
\* for o was published: none is ready, none is being handled, and no payment
\* was made from one
Unrequested(o) ==
    /\ o \in OrderIds
    /\ co.orderId = o => co.pc = "done"
    /\ \A m \in qPaymentRequest \cup Msgs(payInflight) : m.orderId # o
    /\ \A p \in PaymentsOf(o) : payments[p].via # "queue"

\* order o is pending, or a payment made through POST /payments names it
PendingOrDirect(o) ==
    \/ orders[o].status = "pending"
    \/ \E p \in PaymentsOf(o) : payments[p].via = "direct"

\* C24: an order whose call ended without publishing a payment request is
\* stored and pending; in every later state it still has no payment request
\* (the publish is never retried) and it is still pending unless a payment for
\* it was made through POST /payments.
C24_StaysPending ==
    [][\A o \in OrderIds :
         Unrequested(o) => /\ PendingOrDirect(o)
                           /\ Unrequested(o)'
                           /\ PendingOrDirect(o)']_vars

\* order 1 was stored without the channel and is still pending with no payment
\* request after order 2 went all the way to paid
C24_Witness ==
    /\ Len(orders) = 2
    /\ Unrequested(1)
    /\ orders[1].status = "pending"
    /\ PaymentsOf(1) = {}
    /\ orders[2].status = "paid"

\* C25: every failed INSERT of the consumer of 'payment.request' and every
\* failed UPDATE of the consumer of 'order.payment.processed', whatever the
\* number of failures before it, leaves the message ready in its queue for the
\* same consumer: it is not acknowledged, not dropped, nothing is stored or
\* published for it, and no attempt count is kept.
C25_UnboundedRetry ==
    [][/\ \A m \in qPaymentRequest :
            PayInsert(m, FALSE)
              => /\ m \in qPaymentRequest'
                 /\ payChan' = "open"
                 /\ UNCHANGED <<dbVars, queueVars, flightVars, published, ackedReq,
                                crashedReq, ackedDone>>
       /\ \A m \in qPaymentProcessed \cup staleReady :
            OrdUpdate(m, FALSE)
              => /\ m \in qPaymentProcessed'
                 /\ ordChan' = ordChan
                 /\ UNCHANGED <<dbVars, queueVars, payInflight, ordInflight, published,
                                ackedReq, ackedDone, applied, redone>>]_vars

\* the only payment request there is has failed its INSERT twice and is ready
\* again: no payment, nothing published, nothing acknowledged
C25_Witness ==
    /\ faults.persist = MaxRetries
    /\ Len(orders) = 1
    /\ \E m \in qPaymentRequest : m.orderId = 1
    /\ payChan = "open"
    /\ payments = <<>>
    /\ published = {}
    /\ ackedReq = {}

\* C26: no step removes an Order row or changes its user id, items or total
\* amount; a step that changes the status or the payment id of order o is the
\* committed UPDATE of the payment-completed consumer for a message naming o;
\* and a paid order stays paid.
C26_OrderFrame ==
    [][/\ Len(orders') >= Len(orders)
       /\ \A o \in OrderIds :
            /\ orders'[o].userId = orders[o].userId
            /\ orders'[o].items = orders[o].items
            /\ orders'[o].totalAmount = orders[o].totalAmount
            /\ (\/ orders'[o].status # orders[o].status
                \/ orders'[o].paymentId # orders[o].paymentId)
                 => \E m \in qPaymentProcessed \cup staleReady :
                        m.orderId = o /\ OrdUpdate(m, TRUE)
            /\ orders[o].status = "paid" => orders'[o].status = "paid"]_vars

\* two stored orders after every kind of step that touches the table: order 1
\* was paid and then updated again by a second payment-completed message, order
\* 2 is still pending
C26_Witness ==
    /\ Len(orders) = 2
    /\ orders[1].status = "paid" /\ orders[1].paymentId = 2
    /\ redone # {} \/ Cardinality(applied) = 2
    /\ orders[2].status = "pending"

\* the number of times socket s occurs in the registry entry of user u
Occurrences(u, s) ==
    IF u \in DOMAIN connections
    THEN Cardinality({k \in 1..Len(connections[u]) : connections[u][k] = s})
    ELSE 0

\* C27: a broadcast of a notification appends one live push of it to the log
\* of a socket for each occurrence of the socket in the registry entry of the
\* notification's user when the socket is open, appends nothing to a socket
\* that is not open or not in the entry, and changes neither the registry nor
\* any socket.
C27_BroadcastFrame ==
    [][\A id \in 1..Len(notifications) :
         BroadcastOf(id)
           => /\ connections' = connections
              /\ socks' = socks
              /\ \A s \in Sockets :
                   LET n == IF socks[s].state = "open"
                            THEN Occurrences(notifications[id].userId, s) ELSE 0
                   IN /\ Len(sent'[s]) = Len(sent[s]) + n
                      /\ SubSeq(sent'[s], 1, Len(sent[s])) = sent[s]
                      /\ \A k \in (Len(sent[s]) + 1)..Len(sent'[s]) :
                            sent'[s][k] = LiveMsg(ToJSON(notifications[id]))]_vars

\* socket 1 subscribed before notification 1 was created, closed, and is still
\* in the entry of the notification's user after the notification was fanned
\* out in a run without failure: it was skipped and not pruned
C27_Witness ==
    /\ socks[1].state = "closed"
    /\ Registered(1, 1)
    /\ Len(notifications) >= 1 /\ notifications[1].userId = 1
    /\ Settled(1)
    /\ faults = [persist |-> 0, other |-> 0]
    /\ HistoriesOf(sent[1]) # {}
    /\ \A k \in HistoriesOf(sent[1]) : sent[1][k].data = <<>>
    /\ PushesOf(sent[1], 1) = {}

\* C28: no registry entry is ever empty; an entry appears only by a subscribe
\* for its user and then holds that socket alone, grows only by a subscribe
\* that appends its socket, shrinks only by the close of a socket whose
\* ws.userId is that user, and disappears only by the close of the one socket
\* left in it.
C28_NoEmptyEntry ==
       [][/\ \A u \in DOMAIN connections : Len(connections[u]) > 0
          /\ \A u \in DOMAIN connections' : Len(connections'[u]) > 0
          /\ \A u \in DOMAIN connections' \ DOMAIN connections :
               \E s \in Sockets : WsSubscribe(s, u) /\ connections'[u] = <<s>>
          /\ \A u \in DOMAIN connections \cap DOMAIN connections' :
               \/ connections'[u] = connections[u]
               \/ \E s \in Sockets :
                     WsSubscribe(s, u) /\ connections'[u] = Append(connections[u], s)
               \/ \E s \in Sockets :
                     /\ WsClose(s) /\ socks[s].userId = u
                     /\ Len(connections'[u]) = Len(connections[u]) - 1
          /\ \A u \in DOMAIN connections \ DOMAIN connections' :
               \E s \in Sockets :
                  WsClose(s) /\ socks[s].userId = u /\ connections[u] = <<s>>]_vars

\* both sockets subscribed once, received their history and closed: the entry
\* made by the first subscribe and extended by the second is gone
C28_Witness ==
    /\ DOMAIN connections = {}
    /\ \A s \in Sockets :
         /\ socks[s].state = "closed" /\ socks[s].subs = 1 /\ socks[s].userId = 1
         /\ HistoriesOf(sent[s]) # {}

\* C29: a step of the Kafka consumer moves past its message whatever happens;
\* it stores a notification only for a message of 'order-events' with key
\* 'order.created', none for a message of 'user-events'; when the INSERT or
\* the publish of createNotification fails the event is not consumed again:
\* the offset stays past it, nothing is requeued and the call is over.
C29_BestEffortEvents ==
    [][/\ kOffset' >= kOffset /\ uOffset' >= uOffset
       /\ KafkaUserEvent
            => /\ uOffset' = uOffset + 1
               /\ UNCHANGED <<notifications, nInflight, qNotifications, pubsub, sent>>
       /\ \A local \in BOOLEAN, dbOk \in BOOLEAN :
            KafkaInsert(local, dbOk)
              => /\ kOffset' = kOffset + 1
                 /\ UNCHANGED <<orderEvents, qNotifications, pubsub, sent>>
                 /\ notifications' # notifications
                      => /\ orderEvents[kOffset'].key = "order.created"
                         /\ notifications' = Append(notifications,
                               NewNotification(Len(notifications) + 1,
                                               EventNotification(orderEvents[kOffset'])))
                 /\ ~dbOk => UNCHANGED <<notifications, nInflight>>
       /\ \A h \in nInflight :
            (h.src = "kafka" /\ NtfPublish(h, FALSE))
              => /\ nInflight' = nInflight \ {h}
                 /\ UNCHANGED <<kOffset, orderEvents, qNotifications, notifications>>]_vars

\* the consumer is past two order events and one user event with nothing in
\* flight: the first order event was dropped when its INSERT failed, the user
\* event made no notification, and the one notification there is comes from
\* the second order event
C29_Witness ==
    /\ Len(orderEvents) = 2 /\ kOffset = 2
    /\ Len(userEvents) = 1 /\ uOffset = 1
    /\ nInflight = {}
    /\ faults.other = 1
    /\ Cardinality(qNotifications) = 2
    /\ Len(notifications) = 1
    /\ notifications[1].data.orderId = 2

\* the ids of the rows of user u among the first k rows of the table
RowIdsOf(u, k) == {id \in 1..k : notifications[id].userId = u}

\* C30: when the query of a subscribe resolves on an open socket, one history
\* reply is sent; it holds rows of the subscribing user only, each as it is
\* stored, at most 50 of them and all of them when the user has fewer, in
\* strictly decreasing creation time, and no row of the user left out is more
\* recent than a row in the reply.
C30_HistoryReply ==
    [][\A s \in Sockets :
         (/\ socks[s].load # Absent /\ socks'[s].load = Absent
          /\ socks[s].state = "open" /\ faults' = faults)
           => LET u == socks[s].userId
                  ids == RowIdsOf(u, socks[s].load)
                  reply == sent'[s][Len(sent'[s])]
                  rows == reply.data
                  shown == {rows[j].id : j \in 1..Len(rows)}
              IN /\ Len(sent'[s]) = Len(sent[s]) + 1
                 /\ reply.type = "notifications"
                 /\ Len(rows) <= 50
                 /\ Len(rows) = IF Cardinality(ids) < 50 THEN Cardinality(ids) ELSE 50
                 /\ shown \subseteq ids
                 /\ \A j \in 1..Len(rows) :
                       /\ rows[j].userId = u
                       /\ rows[j] = ToJSON(notifications[rows[j].id])
                 /\ \A j \in 1..(Len(rows) - 1) :
                       rows[j].createdAt[2] > rows[j + 1].createdAt[2]
                 /\ \A i \in ids \ shown, j \in shown :
                       notifications[i].createdAt < notifications[j].createdAt]_vars

\* a reply of exactly 50 rows for a user who has more stored, over a table
\* that also holds rows of another user: it starts at the user's latest row
C30_Witness ==
    \E s \in Sockets :
       \E k \in HistoriesOf(sent[s]) :
          /\ Len(sent[s][k].data) = 50
          /\ Cardinality(RowIdsOf(socks[s].userId, Len(notifications))) > 50
          /\ \E id \in 1..Len(notifications) : notifications[id].userId # socks[s].userId
          /\ sent[s][k].data[1].id = Len(notifications)
          /\ sent[s][k].data[2].id = Len(notifications) - 2

\* C31: every Payment row has status 'completed' in every state, and no step
\* removes or changes a Notification row: the table only grows at its end,
\* also in the steps that close the sockets of the row's user.
C31_RecordsKept ==
    [][/\ \A p \in 1..Len(payments) : payments[p].status = "completed"
       /\ \A p \in 1..Len(payments') : payments'[p].status = "completed"
       /\ Len(notifications') >= Len(notifications)
       /\ \A id \in 1..Len(notifications) : notifications'[id] = notifications[id]]_vars

\* a payment is stored, and notification 1 is still stored after every socket
\* that received a live push of it closed and the registry emptied
C31_Witness ==
    /\ Len(payments) >= 1
    /\ Len(notifications) >= 1
    /\ DOMAIN connections = {}
    /\ \A s \in Sockets : socks[s].state = "closed" /\ PushesOf(sent[s], 1) # {}

\* C32 as stated: a createOrder call that answered with a server error has
\* persisted no Order row, whichever statement of the handler failed.
C32_FailureMeansNoOrder ==
    (co.pc = "done" /\ co.resp = HttpServerError) => co.orderId = Null

\* the ids of the Notification rows about order o
RowsAbout(o) == {id \in 1..Len(notifications) : notifications[id].data.orderId = o}

\* C33 as stated: while the Kafka consumer has consumed nothing, an order
\* whose message of 'notifications' was delivered and is neither ready nor
\* unsettled any more (it was acknowledged) has exactly one Notification row,
\* also when a publish to the Redis channel failed on the way.
C33_OneRecordPerMessage ==
    \A o \in OrderIds :
        (/\ kOffset = 0
         /\ RowsAbout(o) # {}
         /\ NotificationMsg(o, orders[o]) \notin qNotifications \cup ntfUnacked)
          => Cardinality(RowsAbout(o)) = 1

\* C34 as stated: in a run without any failure, where each queue message and
\* each event is consumed once, an order has at most one 'Order Created'
\* Notification row.
C34_OneRecordPerOrder ==
    faults = [persist |-> 0, other |-> 0]
      => \A o \in OrderIds :
            Cardinality({id \in RowsAbout(o) : notifications[id].title = "Order Created"}) <= 1

\* C35 as stated: a socket occurs at most once in the registry entry of a
\* user, whatever subscribe messages were sent.
C35_OncePerEntry ==
    \A u \in DOMAIN connections, s \in Sockets : Occurrences(u, s) <= 1

\* C36 as stated: a socket is in the entry of at most one user, and a closed
\* socket is in no entry.
C36_OneUserPerSocket ==
    \A s \in Sockets :
        /\ Cardinality({u \in DOMAIN connections : Registered(s, u)}) <= 1
        /\ socks[s].state = "closed" => \A u \in DOMAIN connections : ~Registered(s, u)

\* C37: in every state the payment id of a 'paid' order is the id of a Payment
\* row of that order, also when the order has several Payment rows; every
\* payment-completed message whose UPDATE commits leaves its order with the
\* message's payment id (the message processed last wins), and no other step
\* changes an order row.
C37_PaymentOfLastMessage ==
    [][/\ \A o \in 1..Len(orders') :
             orders'[o].status = "paid"
               => /\ orders'[o].paymentId \in 1..Len(payments')
                  /\ payments'[orders'[o].paymentId].orderId = o
       /\ \A m \in Msgs(ordInflight') \ Msgs(ordInflight) :
             m.orderId \in 1..Len(orders')
               => /\ orders'[m.orderId].status = "paid"
                  /\ orders'[m.orderId].paymentId = m.paymentId
       /\ \A o \in OrderIds :
             orders'[o] # orders[o]
               => \E m \in Msgs(ordInflight') \ Msgs(ordInflight) : m.orderId = o]_vars

\* an order with a Payment row from the queue consumer and one from the direct
\* endpoint, whose payment-completed messages were both applied: the order
\* holds the payment id of one of them
C37_Witness ==
    \E o \in OrderIds :
        /\ orders[o].status = "paid"
        /\ \E m, n \in applied :
              /\ m.orderId = o /\ n.orderId = o /\ m # n
              /\ payments[m.paymentId].via = "queue"
              /\ payments[n.paymentId].via = "direct"
              /\ orders[o].paymentId \in {m.paymentId, n.paymentId}

\* C38: a payment-completed message whose orderId is the id of no order row is
\* handled like any other: its UPDATE commits without changing table orders
\* and the message leaves the queue for the acknowledgement; the
\* acknowledgement changes no order either; once acknowledged the message is
\* never in the queue or in a handler again; and while nothing has failed a
\* message applied without an order is never back in the queue, so the first
\* delivery is the only one.
C38_UnknownOrderAcked ==
    [][/\ \A m \in qPaymentProcessed :
             (ordChan = "open" /\ m.orderId \notin OrderIds /\ OrdUpdate(m, TRUE))
               => /\ orders' = orders
                  /\ m \notin qPaymentProcessed'
                  /\ [msg |-> m, stale |-> FALSE] \in ordInflight'
       /\ \A h \in ordInflight :
             (~h.stale /\ h.msg.orderId \notin OrderIds /\ OrdAck(h))
               => /\ orders' = orders
                  /\ h.msg \in ackedDone'
                  /\ h.msg \notin qPaymentProcessed'
       /\ \A m \in ackedDone :
             m.orderId \notin OrderIds
               => m \notin qPaymentProcessed' \cup staleReady' \cup Msgs(ordInflight')
       /\ faults' = [persist |-> 0, other |-> 0]
            => \A m \in applied' :
                  m.orderId \notin 1..Len(orders') => m \notin qPaymentProcessed']_vars

\* a direct payment named an order that does not exist while another order
\* does; its message was acknowledged and the existing order is still pending
C38_Witness ==
    /\ Len(orders) >= 1
    /\ \A o \in OrderIds : orders[o].status = "pending" /\ orders[o].paymentId = Null
    /\ \E m \in ackedDone : /\ m.orderId \notin OrderIds
                            /\ m \notin qPaymentProcessed
                            /\ payments[m.paymentId].via = "direct"

\* an open socket that has fewer history messages than subscribes it made and
\* no SELECT pending: a history load of it failed
HistoryLost(s) ==
    /\ socks[s].state = "open"
    /\ socks[s].load = Absent
    /\ socks[s].subs > Cardinality(HistoriesOf(sent[s]))

\* C39: a subscribe whose history SELECT fails sends nothing on any socket and
\* changes neither the registry nor the socket's state and user id; a socket
\* whose history load failed is in the registry entry of its user as long as
\* it is open; and every broadcast of a notification of that user appends a
\* live push of it to the socket's log.
C39_HistoryFailureKeepsSocket ==
    [][/\ \A s \in Sockets :
             WsHistory(s, FALSE)
               => /\ sent' = sent
                  /\ connections' = connections
                  /\ socks'[s].state = socks[s].state
                  /\ socks'[s].userId = socks[s].userId
       /\ \A s \in Sockets :
             HistoryLost(s)' => Registered(s, socks[s].userId)'
       /\ \A s \in Sockets, id \in 1..Len(notifications) :
             (/\ HistoryLost(s)
              /\ notifications[id].userId = socks[s].userId
              /\ BroadcastOf(id))
               => /\ Len(sent'[s]) > Len(sent[s])
                  /\ sent'[s][Len(sent'[s])] = LiveMsg(ToJSON(notifications[id]))
                  /\ HistoryLost(s)']_vars

\* socket 1 subscribed once as user 1, its history load failed, and it is open
\* and registered with a live push of a notification created afterwards and no
\* history message in its log
C39_Witness ==
    /\ socks[1].state = "open" /\ socks[1].subs = 1 /\ socks[1].load = Absent
    /\ faults.other = 1
    /\ Registered(1, 1)
    /\ HistoriesOf(sent[1]) = {}
    /\ \E id \in 1..Len(notifications) : PushesOf(sent[1], id) # {}

====
